---- MODULE Spec2Model ----
(***************************************************************************)
(* gevent_requests: AsyncRequest.send, send, gmap, gimap, gimap_enumerate  *)
(* (src/gevent_requests.py) on top of gevent's Pool, joinall and           *)
(* imap_unordered.                                                         *)
(*                                                                         *)
(* One behaviour is one caller that picks a batch of N requests, a size,   *)
(* an exception_handler and a gtimeout, calls gmap on it, and, when the    *)
(* call was made without gtimeout, then calls gimap and gimap_enumerate on *)
(* fresh requests built from the same inputs.                              *)
(*                                                                         *)
(* Greenlets are cooperative: a spawned greenlet runs only while the main  *)
(* greenlet is suspended (in pool.spawn on a full pool, in joinall, or     *)
(* between two pulls of a generator).                                      *)
(***************************************************************************)
EXTENDS Integers, Sequences, FiniteSets, Bags, TLC

\* ---------------------------------------------------------------- bounds
MaxN == 3          \* at most this many requests in a batch
MaxSize == 2       \* size is None (modelled as 0) or 1..MaxSize
MaxTimeout == 1    \* gtimeout is None (modelled as 0) or 1..MaxTimeout
MaxOverrun == 1    \* the clock stops MaxOverrun ticks after gtimeout

VARIABLES
    nreq,               \* N, the number of requests the caller passes
    fails,              \* fails[i]: session.request raises for request i
    size,               \* the size argument; 0 stands for None
    exception_handler,  \* "None", "pass", "value", "exception", "notcallable"
    gtimeout,           \* the gtimeout argument of gmap; 0 stands for None
    call,               \* the entry point being executed
    pc,                 \* where the main greenlet is in that entry point
    requests,           \* requests[i]: the AsyncRequest object at position i
    glet,               \* glet[i]: the greenlet running requests[i].send
    poolGreenlets,      \* the greenlets the Pool holds a slot for
    nextIdx,            \* how many requests have been handed to spawn
    consumed,           \* how many items were taken from the caller's iterable
    queue,              \* imap_unordered's result queue, in completion order
    out,                \* what the generator has yielded so far
    ret,                \* the list gmap returned
    gmapRet,            \* the list the earlier gmap call returned (same inputs)
    timedOut,           \* joinall returned because gtimeout elapsed
    handlerCalls,       \* handlerCalls[i]: handler calls made for request i
    sendCalls,          \* sendCalls[i]: times requests[i].send was entered
    raised,             \* an exception left a greenlet running send
    finished,           \* the requests whose send has returned, in that order
    closedSessions,     \* the sessions close() was called on
    elapsed,            \* time since gmap was called
    joinWait            \* time since joinall was called

vars == <<nreq, fails, size, exception_handler, gtimeout, call, pc, requests,
          glet, poolGreenlets, nextIdx, consumed, queue, out, ret, gmapRet,
          timedOut, handlerCalls, sendCalls, raised, finished,
          closedSessions, elapsed, joinWait>>

\* ---------------------------------------------------------------- values
None == [kind |-> "None", id |-> 0]
Response(i) == [kind |-> "Response", id |-> i]
Exception(i) == [kind |-> "Exception", id |-> i]
Traceback(i) == [kind |-> "Traceback", id |-> i]
AValue == [kind |-> "a value", id |-> 0]

Handlers == {"None", "pass", "value", "exception", "notcallable"}

Idx == 0 .. (nreq - 1)

\* AsyncRequest.__init__: response, exception and traceback start as None
AsyncRequest == [response |-> None, exception |-> None, traceback |-> None]

\* an entry point without its assert
HandlerAssert_Missing(h) == TRUE

\* exception_handler is None or callable(exception_handler)
HandlerAssert(h) == h = "None" \/ h # "notcallable"

\* the truth value of exception_handler in "elif exception_handler"
HandlerSet(h) == h # "None"

\* the handlers of the tests: pass, return "a value", return exception
CallHandler(h, req, exc) ==
    CASE h = "pass" -> None
      [] h = "value" -> AValue
      [] h = "exception" -> exc
      [] OTHER -> None

\* hasattr(req, "exception")
HasAttrException(req) == "exception" \in DOMAIN req

\* the batch the caller builds: the requests at even positions are given
\* the caller's own Session (session=s), the others none
SuppliedSession(i) == i % 2 = 0

\* the caller's Session s
CallerSession == -1

\* AsyncRequest.__init__: self.session is the one supplied, or a new
\* Session() of this request
SessionOf(i) == IF SuppliedSession(i) THEN CallerSession ELSE i

\* AsyncRequest.__init__: self._close
OwnsSession(i) == ~SuppliedSession(i)

\* a finally clause that closes whatever session the request has
SendCloses_Always(i) == {SessionOf(i)}

\* AsyncRequest.send, finally: if self._close: self.session.close()
SendCloses(i) == IF OwnsSession(i) THEN {SessionOf(i)} ELSE {}

\* a send that stores the exception without its traceback
SendBody_NoTraceback(req, i, raises) ==
    IF raises
    THEN [req EXCEPT !.exception = Exception(i)]
    ELSE [req EXCEPT !.response = Response(i)]

\* AsyncRequest.send between try and return self, given whether
\* session.request raised: the request object afterwards
SendBody(req, i, raises) ==
    IF raises
    THEN [req EXCEPT !.exception = Exception(i), !.traceback = Traceback(i)]
    ELSE [req EXCEPT !.response = Response(i)]

\* a send without its except clause
SendPropagates_NoExcept(raises) == raises

\* whether the exception of session.request leaves send (except Exception
\* catches it, so it does not)
SendPropagates(raises) == FALSE

\* ------------------------------------------------------------------ pool
\* gmap: pool = Pool(size) if size else None;  gimap: pool = Pool(size)
HasPool == call # "gmap" \/ size # 0

\* a pool that is made even without size, with one slot
PoolFull_DefaultOne ==
    Cardinality({i \in Idx : glet[i] \in {"spawned", "running"}})
        >= (IF size = 0 THEN 1 ELSE size)

\* a pool whose spawn never waits for a slot
PoolFull_NeverBlocks == FALSE

\* a semaphore that lets one greenlet more than size in
PoolFull_OffByOne == HasPool /\ size # 0 /\ Cardinality(poolGreenlets) > size

\* Pool's semaphore: spawn blocks while no slot is free (Pool(None) has
\* no semaphore limit)
PoolFull == HasPool /\ size # 0 /\ Cardinality(poolGreenlets) >= size

\* send(r, pool): pool.spawn(r.send) or gevent.spawn(r.send); the greenlets
\* the pool holds afterwards
SpawnInto(i) == IF HasPool THEN poolGreenlets \cup {i} ELSE poolGreenlets

Running == {i \in Idx : glet[i] = "running"}

\* a joinall that returns as soon as one job is done
AllDead_FirstDone == nreq = 0 \/ \E i \in Idx : glet[i] = "dead"

\* joinall without timeout, pool.join: every greenlet has finished
AllDead == \A i \in Idx : glet[i] = "dead"

\* the main greenlet is inside gmap's list comprehension and not blocked
MainBusy == call = "gmap" /\ pc = "spawn" /\ ~(nextIdx < nreq /\ PoolFull)

\* -------------------------------------------------------------- the state
\* the caller has built its AsyncRequest objects; nothing was spawned
FreshCall ==
    /\ requests = [i \in Idx |-> AsyncRequest]
    /\ glet = [i \in Idx |-> "none"]
    /\ poolGreenlets = {}
    /\ nextIdx = 0
    /\ consumed = 0
    /\ queue = <<>>
    /\ out = <<>>
    /\ handlerCalls = [i \in Idx |-> 0]
    /\ sendCalls = [i \in Idx |-> 0]
    /\ raised = FALSE
    /\ finished = <<>>
    /\ closedSessions = {}

Init ==
    /\ nreq \in 0 .. MaxN
    /\ fails \in [0 .. (nreq - 1) -> BOOLEAN]
    /\ size \in 0 .. MaxSize
    /\ exception_handler \in Handlers
    /\ gtimeout \in 0 .. MaxTimeout
    /\ call = "gmap"
    /\ pc = "call"
    /\ FreshCall
    /\ ret = <<>>
    /\ gmapRet = <<>>
    /\ timedOut = FALSE
    /\ elapsed = 0
    /\ joinWait = 0

Params == <<nreq, fails, size, exception_handler, gtimeout>>

\* ------------------------------------------------------------- greenlets
\* a spawned greenlet gets the CPU and enters AsyncRequest.send, up to the
\* point where session.request waits for the network
StartSend(i) ==
    /\ ~MainBusy
    /\ glet[i] = "spawned"
    /\ glet' = [glet EXCEPT ![i] = "running"]
    /\ sendCalls' = [sendCalls EXCEPT ![i] = @ + 1]
    /\ UNCHANGED <<Params, finished, closedSessions, call, pc, requests,
                   poolGreenlets, nextIdx, consumed, queue, out, ret,
                   gmapRet, timedOut, handlerCalls, raised, elapsed, joinWait>>

\* an enumerate that counts from 1
ImapItem_FromOne(i) ==
    IF call = "gimap_enumerate" THEN [index |-> i + 1, req |-> i]
    ELSE [index |-> -1, req |-> i]

\* gimap: _send(r) returns r.send();  gimap_enumerate: _send(r) returns
\* (r[0], r[1].send()), r being the pair enumerate made of request i
ImapItem(i) ==
    IF call = "gimap_enumerate" THEN [index |-> i, req |-> i]
    ELSE [index |-> -1, req |-> i]

\* an imap that hands results out in submission order
ImapQueue_Ordered(q, item) ==
    LET before == SelectSeq(q, LAMBDA x : x.req < item.req)
        after == SelectSeq(q, LAMBDA x : x.req > item.req)
    IN before \o <<item>> \o after

\* imap_unordered queues each result when its greenlet finishes
ImapQueue(q, item) == Append(q, item)

\* session.request returns or raises; send stores the outcome and returns;
\* the greenlet dies, the pool frees its slot and imap_unordered queues the
\* greenlet's value
FinishSend(i) ==
    /\ ~MainBusy
    /\ glet[i] = "running"
    /\ glet' = [glet EXCEPT ![i] = "dead"]
    /\ requests' = [requests EXCEPT ![i] = SendBody(@, i, fails[i])]
    /\ poolGreenlets' = poolGreenlets \ {i}
    /\ IF fails[i] /\ SendPropagates(fails[i])
       THEN /\ raised' = TRUE
            /\ queue' = IF call = "gmap" THEN queue
                        ELSE Append(queue, [index |-> -2, req |-> i])
       ELSE /\ raised' = raised
            /\ queue' = IF call = "gmap" THEN queue
                        ELSE ImapQueue(queue, ImapItem(i))
    /\ finished' = Append(finished, i)
    /\ closedSessions' = closedSessions \cup SendCloses(i)
    /\ UNCHANGED <<Params, call, pc, nextIdx, consumed, out, ret, gmapRet,
                   timedOut, handlerCalls, sendCalls, elapsed, joinWait>>

\* ------------------------------------------------------------------ gmap
\* the assert, requests = list(requests), pool = Pool(size) if size else None
GmapCall ==
    /\ call = "gmap" /\ pc = "call"
    /\ IF HandlerAssert(exception_handler)
       THEN pc' = "spawn" /\ consumed' = nreq
       ELSE pc' = "AssertionError" /\ consumed' = consumed
    /\ UNCHANGED <<Params, finished, closedSessions, call, requests, glet,
                   poolGreenlets, nextIdx, queue, out, ret, gmapRet,
                   timedOut, handlerCalls, sendCalls, raised, elapsed,
                   joinWait>>

\* one iteration of jobs = [send(r, pool, stream=stream) for r in requests]
GmapSpawn ==
    /\ call = "gmap" /\ pc = "spawn"
    /\ nextIdx < nreq
    /\ ~PoolFull
    /\ glet' = [glet EXCEPT ![nextIdx] = "spawned"]
    /\ poolGreenlets' = SpawnInto(nextIdx)
    /\ nextIdx' = nextIdx + 1
    /\ UNCHANGED <<Params, finished, closedSessions, call, pc, requests,
                   consumed, queue, out, ret, gmapRet, timedOut,
                   handlerCalls, sendCalls, raised, elapsed, joinWait>>

\* gevent.joinall(jobs, timeout=gtimeout) is entered
GmapJoinAll ==
    /\ call = "gmap" /\ pc = "spawn"
    /\ nextIdx = nreq
    /\ pc' = "join"
    /\ joinWait' = 0
    /\ UNCHANGED <<Params, finished, closedSessions, call, requests, glet,
                   poolGreenlets, nextIdx, consumed, queue, out, ret,
                   gmapRet, timedOut, handlerCalls, sendCalls, raised,
                   elapsed>>

\* a loop that calls the handler only when an exception was recorded
GmapOutput_OnlyRecorded(req) ==
    IF req.response # None THEN req.response
    ELSE IF HandlerSet(exception_handler) /\ req.exception # None
         THEN CallHandler(exception_handler, req, req.exception)
    ELSE None

\* a loop that forgets the handler
GmapOutput_NoHandler(req) ==
    IF req.response # None THEN req.response ELSE None

\* the element gmap appends to ret for one request
GmapOutput(req) ==
    IF req.response # None THEN req.response
    ELSE IF HandlerSet(exception_handler) /\ HasAttrException(req)
         THEN CallHandler(exception_handler, req, req.exception)
    ELSE IF HandlerSet(exception_handler) /\ ~HasAttrException(req)
         THEN CallHandler(exception_handler, req, None)
    ELSE None

\* a loop that calls the handler for every request
GmapCallsHandler_Always(req) == HandlerSet(exception_handler)

\* whether gmap's loop calls exception_handler for one request
GmapCallsHandler(req) ==
    req.response = None /\ HandlerSet(exception_handler)

\* a result list built in completion order
GmapRet_CompletionOrder ==
    [k \in 1 .. Len(finished) |-> GmapOutput(requests[finished[k]])]

\* ret = []; for req in requests: ret.append(...)
GmapRet == [k \in 1 .. nreq |-> GmapOutput(requests[k - 1])]

\* the loop over requests and return ret
GmapCollect ==
    /\ ret' = GmapRet
    /\ handlerCalls' = [i \in Idx |->
           IF GmapCallsHandler(requests[i]) THEN handlerCalls[i] + 1
           ELSE handlerCalls[i]]
    /\ pc' = "returned"

\* joinall returns because every job is dead; the loop builds ret
GmapJoined ==
    /\ call = "gmap" /\ pc = "join"
    /\ AllDead
    /\ GmapCollect
    /\ timedOut' = FALSE
    /\ UNCHANGED <<Params, finished, closedSessions, call, requests, glet,
                   poolGreenlets, nextIdx, consumed, queue, out, gmapRet,
                   sendCalls, raised, elapsed, joinWait>>

\* a joinall that kills the jobs it stops waiting for
JoinallTimeout_Kills(g) ==
    [i \in Idx |-> IF g[i] = "dead" THEN "dead" ELSE "killed"]

\* gevent.joinall(jobs, timeout=gtimeout) at its timeout: it stops waiting
\* and leaves the jobs as they are
JoinallTimeout(g) == g

\* joinall returns because gtimeout elapsed; the loop builds ret
GmapTimeout ==
    /\ call = "gmap" /\ pc = "join"
    /\ gtimeout # 0
    /\ joinWait >= gtimeout
    /\ ~AllDead
    /\ GmapCollect
    /\ timedOut' = TRUE
    /\ glet' = JoinallTimeout(glet)
    /\ UNCHANGED <<Params, finished, closedSessions, call, requests,
                   poolGreenlets, nextIdx, consumed, queue, out, gmapRet,
                   sendCalls, raised, elapsed, joinWait>>

\* the main greenlet is suspended inside gmap
GmapWaiting ==
    /\ call = "gmap"
    /\ \/ pc = "spawn" /\ nextIdx < nreq /\ PoolFull
       \/ pc = "join"

\* one unit of time passes while gmap waits: the hub has started every
\* spawned greenlet and all of them wait for the network; joinall's timer
\* fires before more than gtimeout has passed in joinall
Tick ==
    /\ GmapWaiting
    /\ \A i \in Idx : glet[i] # "spawned"
    /\ gtimeout # 0
    /\ elapsed < gtimeout + MaxOverrun
    /\ ~(pc = "join" /\ joinWait >= gtimeout)
    /\ elapsed' = elapsed + 1
    /\ joinWait' = IF pc = "join" THEN joinWait + 1 ELSE joinWait
    /\ UNCHANGED <<Params, finished, closedSessions, call, pc, requests,
                   glet, poolGreenlets, nextIdx, consumed, queue, out, ret,
                   gmapRet, timedOut, handlerCalls, sendCalls, raised>>

\* --------------------------------------------------- gimap, gimap_enumerate
\* the caller, done with one entry point, calls the next one on fresh
\* requests made from the same inputs; calling a generator function runs
\* none of its body
NextCall ==
    /\ gtimeout = 0
    /\ \/ call = "gmap" /\ pc \in {"returned", "AssertionError"}
          /\ call' = "gimap" /\ gmapRet' = ret
       \/ call = "gimap" /\ pc \in {"exhausted", "AssertionError", "raised"}
          /\ call' = "gimap_enumerate" /\ gmapRet' = gmapRet
    /\ pc' = "created"
    /\ requests' = [i \in Idx |-> AsyncRequest]
    /\ glet' = [i \in Idx |-> "none"]
    /\ poolGreenlets' = {}
    /\ nextIdx' = 0
    /\ consumed' = 0
    /\ queue' = <<>>
    /\ out' = <<>>
    /\ handlerCalls' = [i \in Idx |-> 0]
    /\ sendCalls' = [i \in Idx |-> 0]
    /\ raised' = FALSE
    /\ finished' = <<>>
    /\ closedSessions' = {}
    /\ UNCHANGED <<Params, ret, timedOut, elapsed, joinWait>>

\* the first next(): the assert, pool = Pool(size), (gimap_enumerate:
\* enumerate(list(requests)),) pool.imap_unordered(...), which starts the
\* greenlet that feeds the pool; the for loop then waits for a result
GeneratorStart ==
    /\ call \in {"gimap", "gimap_enumerate"} /\ pc = "created"
    /\ IF HandlerAssert(exception_handler)
       THEN /\ pc' = "iter"
            /\ consumed' = IF call = "gimap_enumerate" THEN nreq ELSE consumed
       ELSE pc' = "AssertionError" /\ consumed' = consumed
    /\ UNCHANGED <<Params, finished, closedSessions, call, requests, glet,
                   poolGreenlets, nextIdx, queue, out, ret, gmapRet,
                   timedOut, handlerCalls, sendCalls, raised, elapsed,
                   joinWait>>

\* imap_unordered's feeding greenlet takes the next item of its iterable
\* and pool.spawn()s _send on it, waiting while the pool is full
FeederSpawn ==
    /\ call \in {"gimap", "gimap_enumerate"} /\ pc \in {"iter", "yielded"}
    /\ nextIdx < nreq
    /\ ~PoolFull
    /\ glet' = [glet EXCEPT ![nextIdx] = "spawned"]
    /\ poolGreenlets' = SpawnInto(nextIdx)
    /\ nextIdx' = nextIdx + 1
    /\ consumed' = IF call = "gimap" THEN consumed + 1 ELSE consumed
    /\ UNCHANGED <<Params, finished, closedSessions, call, pc, requests,
                   queue, out, ret, gmapRet, timedOut, handlerCalls,
                   sendCalls, raised, elapsed, joinWait>>

\* a loop body without "if ex_result is not None"
ImapOutput_YieldsNone(item) ==
    LET req == requests[item.req]
    IN IF req.response # None
       THEN [index |-> item.index, value |-> req.response]
       ELSE IF HandlerSet(exception_handler)
            THEN [index |-> item.index,
                  value |-> CallHandler(exception_handler, req, req.exception)]
       ELSE None

\* a loop body that drops what the handler returned
ImapOutput_DropsTranslation(item) ==
    LET req == requests[item.req]
    IN IF req.response # None
       THEN [index |-> item.index, value |-> req.response]
       ELSE None

\* what the loop body yields for one item of imap_unordered, or None when
\* it yields nothing:  gimap yields the value, gimap_enumerate (index, value)
ImapOutput(item) ==
    LET req == requests[item.req]
        ex_result == CallHandler(exception_handler, req, req.exception)
    IN IF req.response # None
       THEN [index |-> item.index, value |-> req.response]
       ELSE IF HandlerSet(exception_handler) /\ ex_result # None
            THEN [index |-> item.index, value |-> ex_result]
       ELSE None

\* whether the loop body calls exception_handler for one item
ImapCallsHandler(item) ==
    requests[item.req].response = None /\ HandlerSet(exception_handler)

\* the for loop gets the next result of imap_unordered and runs its body up
\* to the next yield, or to the next wait for a result; a result that is an
\* exception raised by _send is raised in the generator
ImapNext ==
    /\ call \in {"gimap", "gimap_enumerate"} /\ pc = "iter"
    /\ queue # <<>>
    /\ LET item == Head(queue) IN
       IF item.index = -2
       THEN /\ pc' = "raised"
            /\ UNCHANGED <<out, handlerCalls>>
       ELSE /\ handlerCalls' = [handlerCalls EXCEPT ![item.req] =
                   IF ImapCallsHandler(item) THEN @ + 1 ELSE @]
            /\ IF ImapOutput(item) # None
               THEN out' = Append(out, ImapOutput(item)) /\ pc' = "yielded"
               ELSE out' = out /\ pc' = "iter"
    /\ queue' = Tail(queue)
    /\ UNCHANGED <<Params, finished, closedSessions, call, requests, glet,
                   poolGreenlets, nextIdx, consumed, ret, gmapRet, timedOut,
                   sendCalls, raised, elapsed, joinWait>>

\* the caller asks for the next item: the generator resumes after its yield
Resume ==
    /\ call \in {"gimap", "gimap_enumerate"} /\ pc = "yielded"
    /\ pc' = "iter"
    /\ UNCHANGED <<Params, finished, closedSessions, call, requests, glet,
                   poolGreenlets, nextIdx, consumed, queue, out, ret,
                   gmapRet, timedOut, handlerCalls, sendCalls, raised,
                   elapsed, joinWait>>

\* an imap_unordered that stops as soon as no result is waiting
ImapExhausted_NoResultWaiting == queue = <<>>

\* imap_unordered raises StopIteration: every item was spawned, every
\* greenlet is dead and every result was taken
ImapExhausted == queue = <<>> /\ nextIdx = nreq /\ AllDead

\* imap_unordered is exhausted; pool.join() returns; the generator ends
ImapStop ==
    /\ call \in {"gimap", "gimap_enumerate"} /\ pc = "iter"
    /\ ImapExhausted
    /\ pc' = "exhausted"
    /\ UNCHANGED <<Params, finished, closedSessions, call, requests, glet,
                   poolGreenlets, nextIdx, consumed, queue, out, ret,
                   gmapRet, timedOut, handlerCalls, sendCalls, raised,
                   elapsed, joinWait>>

Next ==
    \/ \E i \in Idx : StartSend(i)
    \/ \E i \in Idx : FinishSend(i)
    \/ GmapCall
    \/ GmapSpawn
    \/ GmapJoinAll
    \/ GmapJoined
    \/ GmapTimeout
    \/ Tick
    \/ NextCall
    \/ GeneratorStart
    \/ FeederSpawn
    \/ ImapNext
    \/ Resume
    \/ ImapStop

Spec == Init /\ [][Next]_vars
\* ================================================================ claims
Range(s) == {s[k] : k \in DOMAIN s}
SeqToBag(s) == [v \in Range(s) |-> Cardinality({k \in DOMAIN s : s[k] = v})]
Failing == {i \in Idx : fails[i]}
Started == {i \in Idx : sendCalls[i] > 0}

\* C1: with a positive size K, in gmap, gimap and gimap_enumerate at most K
\* requests are inside send() at any time; with K = 1 a request's send()
\* has started only if every earlier request's send() has finished.
C1_AtMostSizeRunning ==
    size # 0 =>
        /\ Cardinality(Running) <= size
        /\ size = 1 =>
              \A i \in Idx : \A j \in Started : i < j => glet[i] = "dead"

\* the pool is at its limit while a request is still to be spawned
C1_Witness ==
    /\ size # 0
    /\ Cardinality(Running) = size
    /\ nextIdx < nreq

\* C2: gmap returns a list of exactly N elements; element i comes from
\* request i (its response, or what its exception gave), whatever the
\* completion order; with no failure and no gtimeout every element is the
\* response of its request.
C2_GmapOrderedComplete ==
    (call = "gmap" /\ pc = "returned") =>
        /\ Len(ret) = nreq
        /\ \A i \in Idx :
              /\ ret[i + 1].kind \in {"Response", "Exception"}
                    => ret[i + 1].id = i
              /\ (~timedOut /\ ~fails[i]) => ret[i + 1] = Response(i)
        /\ (Failing = {} /\ gtimeout = 0) =>
              \A i \in Idx : ret[i + 1] = Response(i)

\* three requests finished last to first, and gmap returned their responses
C2_Witness ==
    /\ call = "gmap" /\ pc = "returned"
    /\ nreq = 3 /\ Failing = {} /\ gtimeout = 0
    /\ finished = <<2, 1, 0>>
    /\ ret = <<Response(0), Response(1), Response(2)>>

\* what the handler of the tests returns for the exception of request i
Translated(i) ==
    CASE exception_handler = "None" -> None
      [] exception_handler = "pass" -> None
      [] exception_handler = "value" -> AValue
      [] exception_handler = "exception" -> Exception(i)

\* C3: when gmap builds its list, a request whose send() recorded an
\* exception gets None without a handler and the handler's return value
\* with one (None when the handler returns None); a request with a
\* response gets that response whatever happened to the others.
C3_GmapFailedPosition ==
    [][(call = "gmap" /\ pc = "join" /\ pc' = "returned") =>
          \A i \in Idx :
              /\ requests[i].exception # None => ret'[i + 1] = Translated(i)
              /\ (glet[i] = "dead" /\ ~fails[i]) => ret'[i + 1] = Response(i)
      ]_vars

\* gmap returned the handler's value for a failed request between two
\* responses
C3_Witness ==
    /\ call = "gmap" /\ pc = "returned"
    /\ nreq = 3 /\ Failing = {1}
    /\ exception_handler = "exception"
    /\ ret = <<Response(0), Exception(1), Response(2)>>

\* C4: a failing session.request never leaves send(): the error is stored
\* on the request, no greenlet dies of it, no entry point is ended by it,
\* and when the batch is over every request was run once and every
\* request that did not fail has its response delivered.
C4_FailureAbsorbed ==
    /\ ~raised /\ pc # "raised"
    /\ \A i \in Idx : (glet[i] = "dead" /\ fails[i]) =>
          /\ requests[i].exception = Exception(i)
          /\ requests[i].traceback = Traceback(i)
          /\ requests[i].response = None
    /\ (call = "gmap" /\ pc = "returned" /\ ~timedOut) =>
          \A i \in Idx :
              /\ sendCalls[i] = 1 /\ glet[i] = "dead"
              /\ ~fails[i] => ret[i + 1] = Response(i)
    /\ (call # "gmap" /\ pc = "exhausted") =>
          \A i \in Idx :
              /\ sendCalls[i] = 1 /\ glet[i] = "dead"
              /\ ~fails[i] => \E k \in DOMAIN out : out[k].value = Response(i)

\* the stream ended after a first request that failed and a second whose
\* response was delivered
C4_Witness ==
    /\ call = "gimap_enumerate" /\ pc = "exhausted"
    /\ nreq >= 2 /\ fails[0] /\ ~fails[1]
    /\ finished[1] = 0
    /\ \E k \in DOMAIN out : out[k] = [index |-> 1, value |-> Response(1)]
\* C5: gmap with gtimeout = T never keeps waiting once T has elapsed since
\* the call began, whatever size and the number of requests.
C5_WaitBoundedByGtimeout ==
    (GmapWaiting /\ gtimeout # 0) => elapsed <= gtimeout

\* C6: when gmap builds its list because gtimeout elapsed, a request that
\* completed with a response has it at its position, and a request that
\* has not completed gets None without a handler and handler(req, None)
\* with one.
C6_TimedOutPositions ==
    [][(call = "gmap" /\ pc = "join" /\ pc' = "returned" /\ timedOut') =>
          \A i \in Idx :
              /\ (glet[i] = "dead" /\ ~fails[i]) => ret'[i + 1] = Response(i)
              /\ glet[i] # "dead" =>
                    ret'[i + 1] =
                        CASE exception_handler = "None" -> None
                          [] exception_handler = "pass" -> None
                          [] exception_handler = "value" -> AValue
                          [] exception_handler = "exception" -> None
      ]_vars

\* gmap timed out with one request answered and one still running, for
\* which the handler's value was returned
C6_Witness ==
    /\ call = "gmap" /\ pc = "returned" /\ timedOut
    /\ exception_handler = "value"
    /\ \E i, j \in Idx :
          /\ glet[i] = "dead" /\ ret[i + 1] = Response(i)
          /\ glet[j] = "running" /\ ret[j + 1] = AValue

Values(s) == [k \in DOMAIN s |-> s[k].value]
Count(s, v) == Cardinality({k \in DOMAIN s : s[k] = v})
InStream == call \in {"gimap", "gimap_enumerate"}

\* C7: in gimap and gimap_enumerate a request with a response yields it
\* exactly once, a failed request yields the handler's return value exactly
\* once when a handler is set and returns a non-None value and yields
\* nothing otherwise; at the end of the stream the number of outputs is the
\* number of successes plus the number of failures with a non-None
\* translation.
C7_StreamOutputs ==
    InStream =>
        /\ \A k \in DOMAIN out : out[k].value # None
        /\ \A i \in Idx : Count(Values(out), Response(i)) <= 1
        /\ \A i \in Failing : Count(Values(out), Response(i)) = 0
        /\ pc = "exhausted" =>
              /\ Len(out) = Cardinality(Idx \ Failing)
                     + Cardinality({i \in Failing : Translated(i) # None})
              /\ \A i \in Idx \ Failing :
                    Count(Values(out), Response(i)) = 1
              /\ \A i \in Failing : Translated(i) # None =>
                    Count(Values(out), Translated(i)) =
                        Cardinality({j \in Failing :
                                        Translated(j) = Translated(i)})

\* gimap ended with a single output for three requests, two of which
\* failed under a handler that returns None
C7_Witness ==
    /\ call = "gimap" /\ pc = "exhausted"
    /\ nreq = 3 /\ Failing = {0, 2}
    /\ exception_handler = "pass"
    /\ Values(out) = <<Response(1)>>

\* C8: with no failing request gimap_enumerate emits exactly N pairs, each
\* index of 0..N-1 exactly once in whatever completion order, and the value
\* paired with index i is the response of the request at position i.
C8_EnumerateIndices ==
    (call = "gimap_enumerate" /\ Failing = {}) =>
        /\ \A k \in DOMAIN out :
              /\ out[k].index \in Idx
              /\ out[k].value = Response(out[k].index)
        /\ \A k, l \in DOMAIN out : out[k].index = out[l].index => k = l
        /\ pc = "exhausted" =>
              /\ Len(out) = nreq
              /\ {out[k].index : k \in DOMAIN out} = Idx

\* gimap_enumerate emitted the three indices in an order that is not the
\* input order
C8_Witness ==
    /\ call = "gimap_enumerate" /\ pc = "exhausted"
    /\ nreq = 3 /\ Failing = {}
    /\ [k \in DOMAIN out |-> out[k].index] = <<2, 0, 1>>

\* C9 as stated: at the end of the stream the multiset of values gimap or
\* gimap_enumerate emitted equals the multiset of elements of the list
\* gmap returned for the same inputs, handler and outcomes, without
\* gtimeout.
C9_SameMultisetAsGmap ==
    (InStream /\ pc = "exhausted") =>
        SeqToBag(Values(out)) = SeqToBag(gmapRet)

NotNone(v) == v # None

\* C9 amended: the multiset of values emitted equals the multiset of the
\* elements of gmap's list that are not None.
C9_SameMultisetAsGmapNotNone ==
    (InStream /\ pc = "exhausted") =>
        SeqToBag(Values(out)) = SeqToBag(SelectSeq(gmapRet, NotNone))

\* gimap ended with the two responses, in completion order, after gmap had
\* returned a None and the same two responses for the same inputs
C9_Witness ==
    /\ call = "gimap" /\ pc = "exhausted"
    /\ exception_handler = "None"
    /\ gmapRet = <<None, Response(1), Response(2)>>
    /\ Values(out) = <<Response(2), Response(1)>>

\* C10: the handler is never called for a request that has a response
\* when it is collected and is called exactly once for each request that
\* has none (in gmap: failed, or unfinished at gtimeout).
C10_HandlerCalls ==
    /\ [](\A i \in Idx :
            /\ handlerCalls[i] <= 1
            /\ ~HandlerSet(exception_handler) => handlerCalls[i] = 0
            /\ (InStream /\ requests[i].response # None)
                  => handlerCalls[i] = 0
            /\ (InStream /\ pc = "exhausted" /\ fails[i]
                  /\ HandlerSet(exception_handler)) => handlerCalls[i] = 1
            /\ (call = "gmap" /\ pc # "returned") => handlerCalls[i] = 0)
    /\ [][(call = "gmap" /\ pc = "join" /\ pc' = "returned"
              /\ HandlerSet(exception_handler)) =>
             \A i \in Idx :
                 handlerCalls'[i] =
                     IF requests[i].response = None THEN 1 ELSE 0]_vars
    /\ [][(call = "gmap" /\ pc = "returned" /\ call' = "gmap") =>
             handlerCalls' = handlerCalls]_vars

\* gmap timed out and called the handler once for a failed request, once
\* for an unfinished one, and not for the one with a response
C10_Witness ==
    /\ call = "gmap" /\ pc = "returned" /\ timedOut
    /\ nreq = 3 /\ exception_handler = "pass"
    /\ \E i, j, k \in Idx :
          /\ requests[i].response # None /\ ret[i + 1] = Response(i)
          /\ handlerCalls[i] = 0
          /\ requests[j].exception # None /\ handlerCalls[j] = 1
          /\ glet[k] = "running" /\ handlerCalls[k] = 1
\* ------------------------------------------------ the generators alone
\* the caller calls gimap, and then gimap_enumerate, without a gmap call
\* before them
StreamInit ==
    /\ nreq \in 0 .. MaxN
    /\ fails \in [0 .. (nreq - 1) -> BOOLEAN]
    /\ size \in 0 .. MaxSize
    /\ exception_handler \in Handlers
    /\ gtimeout = 0
    /\ call = "gimap"
    /\ pc = "created"
    /\ FreshCall
    /\ ret = <<>>
    /\ gmapRet = <<>>
    /\ timedOut = FALSE
    /\ elapsed = 0
    /\ joinWait = 0

StreamNext ==
    \/ \E i \in Idx : StartSend(i)
    \/ \E i \in Idx : FinishSend(i)
    \/ NextCall
    \/ GeneratorStart
    \/ FeederSpawn
    \/ ImapNext
    \/ Resume
    \/ ImapStop

\* the hub runs every greenlet that is ready (a spawned greenlet starts,
\* the feeding greenlet spawns when a slot is free), every session.request
\* returns or raises in the end, and the caller keeps pulling from the
\* generator it has
StreamSpec ==
    /\ StreamInit /\ [][StreamNext]_vars
    /\ WF_vars(\E i \in Idx : StartSend(i))
    /\ WF_vars(\E i \in Idx : FinishSend(i))
    /\ WF_vars(GeneratorStart)
    /\ WF_vars(FeederSpawn)
    /\ WF_vars(ImapNext)
    /\ WF_vars(Resume)
    /\ WF_vars(ImapStop)

\* C11: a consumer that keeps pulling from gimap or gimap_enumerate over a
\* finite input whose operations all terminate reaches the end of the
\* stream, and the stream has ended only when every request was spawned,
\* every send() has completed, the pool holds no greenlet and no result is
\* left in the queue.
C11_StreamTerminates ==
    /\ []((InStream /\ pc = "exhausted") =>
            /\ nextIdx = nreq
            /\ AllDead
            /\ poolGreenlets = {}
            /\ queue = <<>>
            /\ Len(finished) = nreq)
    /\ (InStream /\ pc = "created" /\ HandlerAssert(exception_handler))
          ~> (InStream /\ pc = "exhausted")

\* gimap_enumerate reached the end of its stream over three requests
C11_Witness ==
    /\ call = "gimap_enumerate" /\ pc = "exhausted"
    /\ nreq = 3 /\ size = 2
    /\ Len(finished) = 3
\* C12: with an exception_handler that is neither None nor callable, in
\* gmap, gimap and gimap_enumerate no request is ever spawned, no send()
\* is ever started and no item is taken from the caller's iterable.
C12_NothingScheduledOnBadHandler ==
    exception_handler = "notcallable" =>
        /\ nextIdx = 0
        /\ consumed = 0
        /\ poolGreenlets = {}
        /\ \A i \in Idx : glet[i] = "none" /\ sendCalls[i] = 0

\* gimap_enumerate raised AssertionError over three untouched requests
C12_Witness ==
    /\ call = "gimap_enumerate" /\ pc = "AssertionError"
    /\ exception_handler = "notcallable"
    /\ nreq = 3 /\ consumed = 0
    /\ \A i \in Idx : glet[i] = "none"

\* C13: in each of the three entry points a non-callable exception_handler
\* is reported by the call itself: once the entry point has been called
\* (gmap has left its first line, gimap or gimap_enumerate has returned its
\* generator) the AssertionError has been raised.
C13_RaisedAtCall ==
    exception_handler = "notcallable" => pc \in {"call", "AssertionError"}

\* C14: once send() has returned, with a response or with an exception, a
\* session the request created itself has been closed; the session the
\* caller supplied is never closed by send(), so it is open for every
\* request that shares it; no session is closed before its send() returns.
C14_SessionOwnership ==
    /\ CallerSession \notin closedSessions
    /\ \A i \in Idx :
          /\ (glet[i] = "dead" /\ OwnsSession(i))
                => SessionOf(i) \in closedSessions
          /\ glet[i] # "dead" => i \notin closedSessions

\* a failed request that used the caller's session and a request that
\* closed its own are done, and a third one is using the caller's session
C14_Witness ==
    /\ nreq = 3 /\ fails[0]
    /\ glet[0] = "dead" /\ SessionOf(0) = CallerSession
    /\ glet[1] = "dead" /\ closedSessions = {1}
    /\ glet[2] = "running" /\ SessionOf(2) = CallerSession
\* C15: gmap's timeout is cooperative: joinall's timeout leaves every job
\* as it is, a request running at that moment stays running until its
\* send() returns with its outcome stored, and the list gmap has returned
\* is never changed afterwards.
C15_CooperativeTimeout ==
    /\ [][(call = "gmap" /\ pc = "join" /\ pc' = "returned")
             => glet' = glet]_vars
    /\ [][(call = "gmap" /\ pc = "returned" /\ call' = "gmap") =>
             /\ ret' = ret
             /\ \A i \in Idx : glet[i] = "running" =>
                   \/ glet'[i] = "running" /\ requests'[i] = requests[i]
                   \/ /\ glet'[i] = "dead"
                      /\ requests'[i].response =
                            IF fails[i] THEN None ELSE Response(i)
                      /\ requests'[i].exception =
                            IF fails[i] THEN Exception(i) ELSE None]_vars

\* after gmap timed out and returned None for a request, that request
\* completed and stored its response
C15_Witness ==
    /\ call = "gmap" /\ pc = "returned" /\ timedOut
    /\ \E i \in Idx :
          /\ glet[i] = "dead"
          /\ requests[i].response = Response(i)
          /\ ret[i + 1] = None

\* what a request contributes to the stream: its response, or what the
\* handler of the tests makes of its exception
StreamValue(i) == IF fails[i] THEN Translated(i) ELSE Response(i)

\* the values due to the requests that have finished, in completion order
DueValues ==
    SelectSeq([k \in DOMAIN finished |-> StreamValue(finished[k])], NotNone)

\* C16: gimap (and gimap_enumerate, which shares the loop) emits in
\* completion order: what was yielded is a prefix of the outputs of the
\* finished requests taken in the order their send() returned; a result is
\* queued the moment its send() returns, and a waiting consumer can take a
\* queued result whatever else is still running.
C16_CompletionOrder ==
    InStream =>
        /\ Len(out) <= Len(DueValues)
        /\ Values(out) = SubSeq(DueValues, 1, Len(out))
        /\ [k \in DOMAIN queue |-> queue[k].req] =
              SubSeq(finished, Len(finished) - Len(queue) + 1, Len(finished))
        /\ (pc = "iter" /\ queue # <<>>) => ENABLED ImapNext

\* gimap yielded the responses of the third and the second request while
\* the first one is still running
C16_Witness ==
    /\ call = "gimap"
    /\ nreq = 3 /\ glet[0] = "running"
    /\ Values(out) = <<Response(2), Response(1)>>

C18_NoThrottlingWithoutSize ==
    (call = "gmap" /\ size = 0) =>
        /\ ~HasPool /\ ~PoolFull /\ poolGreenlets = {}
        /\ (pc = "spawn" /\ nextIdx < nreq) => ENABLED GmapSpawn
        /\ pc = "spawn" => (Started = {} /\ finished = <<>>)
        /\ pc = "join" =>
              \A i \in Idx : glet[i] = "spawned" => ENABLED StartSend(i)

\* the three requests of a gmap without size are inside send() together
C18_Witness ==
    /\ call = "gmap" /\ size = 0 /\ pc = "join"
    /\ nreq = 3
    /\ Running = {0, 1, 2}

\* C19: send(r, pool) returns at once: whenever gmap is about to call it
\* for the next request the call can complete, also with every slot of the
\* pool busy, without any running request finishing first.
C19_SendNeverBlocks ==
    (call = "gmap" /\ pc = "spawn" /\ nextIdx < nreq) => ENABLED GmapSpawn

\* C20: in gmap, gimap and gimap_enumerate a request whose send() has not
\* returned has neither response nor exception (nor traceback); once its
\* send() has returned it has exactly one of them: its response on
\* success, its exception together with the traceback on failure.
C20_OutcomeSlots ==
    \A i \in Idx :
        /\ glet[i] \in {"none", "spawned", "running"} =>
              requests[i] = [response |-> None, exception |-> None,
                             traceback |-> None]
        /\ (glet[i] = "dead" /\ ~fails[i]) =>
              requests[i] = [response |-> Response(i), exception |-> None,
                             traceback |-> None]
        /\ (glet[i] = "dead" /\ fails[i]) =>
              requests[i] = [response |-> None, exception |-> Exception(i),
                             traceback |-> Traceback(i)]

\* one request failed, one succeeded and one has not run yet
C20_Witness ==
    /\ nreq = 3 /\ fails[0] /\ ~fails[1]
    /\ glet[0] = "dead" /\ requests[0].exception = Exception(0)
    /\ glet[1] = "dead" /\ requests[1].response = Response(1)
    /\ glet[2] = "spawned" /\ requests[2].response = None

\* ------------------------------------------------------ calls without gtimeout
\* the caller calls gmap without gtimeout, then gimap and gimap_enumerate
UntimedInit == Init /\ gtimeout = 0

UntimedNext ==
    \/ \E i \in Idx : StartSend(i)
    \/ \E i \in Idx : FinishSend(i)
    \/ GmapCall
    \/ GmapSpawn
    \/ GmapJoinAll
    \/ GmapJoined
    \/ NextCall
    \/ GeneratorStart
    \/ FeederSpawn
    \/ ImapNext
    \/ Resume
    \/ ImapStop

\* the main greenlet goes on through gmap whenever it is not waiting, the
\* hub runs every greenlet that is ready, every session.request returns or
\* raises in the end, and the caller keeps pulling from a generator
UntimedSpec ==
    /\ UntimedInit /\ [][UntimedNext]_vars
    /\ WF_vars(\E i \in Idx : StartSend(i))
    /\ WF_vars(\E i \in Idx : FinishSend(i))
    /\ WF_vars(GmapCall)
    /\ WF_vars(GmapSpawn)
    /\ WF_vars(GmapJoinAll)
    /\ WF_vars(GmapJoined)
    /\ WF_vars(GeneratorStart)
    /\ WF_vars(FeederSpawn)
    /\ WF_vars(ImapNext)
    /\ WF_vars(Resume)
    /\ WF_vars(ImapStop)

\* an entry point is past its assert and at work on its requests
AtWork == pc \in {"spawn", "join", "iter", "yielded"}

\* every request of the entry point being executed has had its send() run
\* to the end, once
AllSentOnce ==
    \A i \in Idx :
        glet[i] = "dead" /\ sendCalls[i] = 1 /\ Count(finished, i) = 1

\* C21: in gmap without gtimeout, and in gimap and gimap_enumerate pulled
\* to the end, every request's send() is eventually run to completion;
\* send() is entered at most once per request and returns at most once,
\* and an entry point is left (gmap returns, the stream ends; no other way
\* out exists once it is at work) only when send() was entered exactly once
\* for each request and has returned, so the completion an entry point at
\* work leads to is that of its own requests.
C21_EverySendRunsOnce ==
    /\ [](\A i \in Idx :
            /\ sendCalls[i] <= 1
            /\ Count(finished, i) <= 1
            /\ sendCalls[i] = 1 <=> glet[i] \in {"running", "dead"}
            /\ Count(finished, i) = 1 <=> glet[i] = "dead")
    /\ [](pc # "raised")
    /\ []((call = "gmap" /\ pc = "returned") => AllSentOnce)
    /\ []((InStream /\ pc = "exhausted") => AllSentOnce)
    /\ AtWork ~> AllSentOnce

\* gmap with one slot returned after each of its three requests was sent
\* once, in turn
C21_Witness ==
    /\ call = "gmap" /\ pc = "returned"
    /\ nreq = 3 /\ size = 1 /\ gtimeout = 0
    /\ finished = <<0, 1, 2>>
    /\ \A i \in Idx : sendCalls[i] = 1

\* the values due to the requests, in input order
InputOrderValues ==
    SelectSeq([k \in 1 .. nreq |-> StreamValue(k - 1)], NotNone)

\* C22: with size = 1 gimap and gimap_enumerate are strictly FIFO: a
\* request's send() has started only if the send() of every earlier
\* request has finished, requests finish and are queued in input order,
\* the values are emitted in input order, and the indices gimap_enumerate
\* emits are strictly increasing.
C22_StrictFifoWithSizeOne ==
    (InStream /\ size = 1) =>
        /\ \A j \in Started : \A i \in Idx : i < j => glet[i] = "dead"
        /\ \A j \in Idx : (\E i \in Idx : i < j /\ glet[i] # "dead")
              => ~ENABLED StartSend(j)
        /\ finished = [k \in 1 .. Len(finished) |-> k - 1]
        /\ \A k, l \in DOMAIN queue : k < l => queue[k].req < queue[l].req
        /\ HandlerAssert(exception_handler) =>
              /\ Len(out) <= Len(InputOrderValues)
              /\ Values(out) = SubSeq(InputOrderValues, 1, Len(out))
        /\ call = "gimap_enumerate" =>
              \A k, l \in DOMAIN out : k < l => out[k].index < out[l].index

\* gimap_enumerate with one slot emitted the first and the third index, in
\* that order, the second request having failed under a handler that
\* returns None
C22_Witness ==
    /\ call = "gimap_enumerate" /\ pc = "exhausted"
    /\ size = 1 /\ nreq = 3 /\ Failing = {1}
    /\ exception_handler = "pass"
    /\ out = <<[index |-> 0, value |-> Response(0)],
               [index |-> 2, value |-> Response(2)]>>
====
